---- MODULE Spec2Model ----
(***************************************************************************)
(* Derivation of the ParameterGroup protocol for a nominal type            *)
(* (lib/Sema/DerivedConformanceParameterGroup.cpp).                        *)
(*                                                                         *)
(* The state is one nominal type (its member list and its fixed-layout     *)
(* attributes), the members the derivation added to the conformance        *)
(* context, the AST context's record of synthesized declarations, the      *)
(* diagnostics emitted, and the last requirement handed to an entry point  *)
(* together with what the entry point returned.                            *)
(***************************************************************************)
EXTENDS Naturals, Sequences, FiniteSets

VARIABLES members, fixedLayoutAttrs, contextMembers, synthesizedDecls,
          diagnostics, requirement, result, derivations, halted

vars == <<members, fixedLayoutAttrs, contextMembers, synthesizedDecls,
          diagnostics, requirement, result, derivations, halted>>

(***************************************************************************)
(* Bounds of the model: the stored properties of the nominal, and the       *)
(* invocations of the entry points (derivations counts those with a        *)
(* recognized requirement name, the diagnostics the others).               *)
(***************************************************************************)
MaxFields == 3
MaxCalls == 2

(***************************************************************************)
(* The universe the inputs are drawn from.                                 *)
(***************************************************************************)
AllNames == <<"a", "b", "c", "d", "e">>

Types == {"Float", "Int", "Dense", "Cond"}

Locs == {"loc1", "loc2"}

RequirementNames == {"update", "Parameter", "other"}

Id_Parameter == "Parameter"

Id_update == "update"

broken_parameter_group_requirement == "broken_parameter_group_requirement"

None == [found |-> FALSE, Parameter |-> "", update |-> ""]

NullDecl == [kind |-> "null", name |-> "", type |-> ""]

NullType == ""

UndefType == "<undefined>"

(***************************************************************************)
(* The conformance collaborators.  The module's conformance table knows    *)
(* which types declare a ParameterGroup conformance; "Dense" conforms      *)
(* unconditionally with Parameter = Float, "Cond" declares a conditional   *)
(* conformance (Parameter = Int) whose conditional requirements its        *)
(* generic arguments do not meet.                                          *)
(***************************************************************************)
DeclaredConformance(type) ==
    CASE type = "Dense" -> [found |-> TRUE, Parameter |-> "Float", update |-> "Dense.update"]
      [] type = "Cond"  -> [found |-> TRUE, Parameter |-> "Int", update |-> "Cond.update"]
      [] OTHER          -> None

ConditionalRequirementsHold(type) == type # "Cond"

\* ModuleDecl::lookupConformance: the declared conformance, conditional
\* requirements not checked.
lookupConformance(type) == DeclaredConformance(type)

\* TypeChecker::conformsToProtocol: the declared conformance, refused when
\* its conditional requirements fail.
conformsToProtocol(type) ==
    IF DeclaredConformance(type).found /\ ConditionalRequirementsHold(type)
    THEN DeclaredConformance(type)
    ELSE None

\* ProtocolConformanceRef::getTypeWitnessByName for Id_Parameter.
getTypeWitnessByName(conf) == conf.Parameter

\* ProtocolConformance::getWitnessDecl for the update requirement.
getWitnessDecl(conf) == conf.update

\* TypeBase::isEqual.
isEqual(t1, t2) == t1 = t2

(***************************************************************************)
(* Members of the nominal.                                                 *)
(***************************************************************************)
VarDecl(name, type) == [kind |-> "var", name |-> name, type |-> type]

TypeAliasDecl(name, type) == [kind |-> "typealias", name |-> name, type |-> type]

IsVar(m) == m.kind = "var"

\* NominalTypeDecl::getStoredProperties: the stored properties among the
\* members, in declaration order.
getStoredProperties(mems) == SelectSeq(mems, IsVar)

(***************************************************************************)
(* getParameterType: the "parameter type" of a stored property: the        *)
(* Parameter type witness when the property's type conforms to             *)
(* ParameterGroup, the property's own type otherwise.                      *)
(***************************************************************************)
getParameterType_DeclaredOnly(decl) == decl.type

getParameterType(decl) ==
    LET conf == conformsToProtocol(decl.type)
    IN  IF ~conf.found
        THEN decl.type
        ELSE getTypeWitnessByName(conf)

(***************************************************************************)
(* deriveParameterGroup_Parameter: no type for a nominal without stored    *)
(* properties; otherwise the first property's parameter type seeds         *)
(* sameMemberType and the first property whose parameter type differs      *)
(* ends the loop with no type.                                             *)
(***************************************************************************)
RECURSIVE SameMemberLoop(_, _, _)
SameMemberLoop(props, i, sameMemberType) ==
    IF i > Len(props)
    THEN sameMemberType
    ELSE LET parameterType == getParameterType(props[i])
         IN  IF sameMemberType = NullType
             THEN SameMemberLoop(props, i + 1, parameterType)
             ELSE IF ~isEqual(parameterType, sameMemberType)
                  THEN NullType
                  ELSE SameMemberLoop(props, i + 1, sameMemberType)

\* A loop that keeps the candidate on a mismatch instead of giving up.
RECURSIVE SameMemberLoop_KeepFirst(_, _, _)
SameMemberLoop_KeepFirst(props, i, sameMemberType) ==
    IF i > Len(props)
    THEN sameMemberType
    ELSE LET parameterType == getParameterType(props[i])
         IN  IF sameMemberType = NullType
             THEN SameMemberLoop_KeepFirst(props, i + 1, parameterType)
             ELSE SameMemberLoop_KeepFirst(props, i + 1, sameMemberType)

deriveParameterGroup_Parameter_KeepFirst(mems) ==
    IF Len(getStoredProperties(mems)) = 0
    THEN NullType
    ELSE SameMemberLoop_KeepFirst(getStoredProperties(mems), 1, NullType)

deriveParameterGroup_Parameter(mems) ==
    IF Len(getStoredProperties(mems)) = 0
    THEN NullType
    ELSE SameMemberLoop(getStoredProperties(mems), 1, NullType)

canDeriveParameterGroup(mems) == deriveParameterGroup_Parameter(mems) # NullType

(***************************************************************************)
(* getParameterTypeAliasDecl: the first member that is a type alias named  *)
(* Parameter, or null.                                                     *)
(***************************************************************************)
IsParameterAlias(m) == m.kind = "typealias" /\ m.name = Id_Parameter

getParameterTypeAliasDecl(mems) ==
    IF \E i \in 1..Len(mems) : IsParameterAlias(mems[i])
    THEN mems[CHOOSE i \in 1..Len(mems) :
                 /\ IsParameterAlias(mems[i])
                 /\ \A j \in 1..(i - 1) : ~IsParameterAlias(mems[j])]
    ELSE NullDecl

(***************************************************************************)
(* deriveBodyParameterGroup_update: one call expression per stored         *)
(* property, in declaration order.                                         *)
(***************************************************************************)
\* The stored property with the same name as the target (the first one).
getMatchingMember(props, target) ==
    IF \E i \in 1..Len(props) : props[i].name = target.name
    THEN props[CHOOSE i \in 1..Len(props) :
                  /\ props[i].name = target.name
                  /\ \A j \in 1..(i - 1) : props[j].name # target.name]
    ELSE NullDecl

\* updater(&self.x, gradients.x)
DirectCall(memberExpr, gradientsMemberExpr) ==
    [kind |-> "direct", callee |-> "updater", base |-> "",
     args |-> <<"&self." \o memberExpr, "gradients." \o gradientsMemberExpr>>]

\* self.x.update(withGradients: gradients.x, updater)
RecursiveCall(paramUpdateDecl, memberExpr, gradientsMemberExpr) ==
    [kind |-> "recursive", callee |-> paramUpdateDecl, base |-> "self." \o memberExpr,
     args |-> <<"gradients." \o gradientsMemberExpr, "updater">>]

createUpdateCallExpr(props, member) ==
    LET confRef == lookupConformance(member.type)
        memberExpr == member.name
        gradientsMemberExpr == getMatchingMember(props, member).name
    IN  IF ~confRef.found
        THEN DirectCall(memberExpr, gradientsMemberExpr)
        ELSE RecursiveCall(getWitnessDecl(confRef), memberExpr, gradientsMemberExpr)

deriveBodyParameterGroup_update(mems) ==
    LET props == getStoredProperties(mems)
    IN  [i \in 1..Len(props) |-> createUpdateCallExpr(props, props[i])]

(***************************************************************************)
(* Collaborators that change state.                                        *)
(***************************************************************************)
\* NominalTypeDecl::addFixedLayoutAttr: a repeat marking is a no-op.
addFixedLayoutAttr(attrs) == IF attrs > 0 THEN attrs ELSE attrs + 1

\* DerivedConformance::addMembersToConformanceContext: adding a declaration
\* that is already a member is a no-op.
addMembersToConformanceContext(ctx, decl) ==
    IF \E i \in 1..Len(ctx) : ctx[i].id = decl.id THEN ctx ELSE Append(ctx, decl)

\* ASTContext::addSynthesizedDecl.
addSynthesizedDecl(synth, decl) ==
    IF \E i \in 1..Len(synth) : synth[i] = decl.id THEN synth ELSE Append(synth, decl.id)

\* TypeChecker::diagnose.
diagnose(diags, loc, id) == Append(diags, [loc |-> loc, id |-> id])

(***************************************************************************)
(* Values an entry point returns.                                          *)
(***************************************************************************)
NoResult == [kind |-> "pending", type |-> "", id |-> 0]

NullResult == [kind |-> "null", type |-> "", id |-> 0]

TypeResult(type) ==
    IF type = NullType THEN NullResult ELSE [kind |-> "type", type |-> type, id |-> 0]

DeclResult(decl) == [kind |-> "decl", type |-> "", id |-> decl.id]

NoRequirement == [entry |-> "", name |-> "", loc |-> ""]

Requirements(entry) == [entry : {entry}, name : RequirementNames, loc : Locs]

(***************************************************************************)
(* deriveParameterGroup_update: the update(withGradients:_:) declaration.  *)
(* The declaration carries the body synthesizer; it has no body yet.       *)
(***************************************************************************)
\* A declaration whose body is built together with the signature.
FuncDecl_update_Eager(id, parameterType, mems) ==
    [id |-> id, name |-> Id_update, parameterType |-> parameterType,
     implicit |-> TRUE, mutating |-> TRUE,
     bodyKind |-> "Parsed", body |-> deriveBodyParameterGroup_update(mems),
     synthesizerRuns |-> 1, bodyRequested |-> FALSE]

FuncDecl_update(id, parameterType, mems) ==
    [id |-> id, name |-> Id_update, parameterType |-> parameterType,
     implicit |-> TRUE, mutating |-> TRUE,
     bodyKind |-> "Synthesize", body |-> << >>,
     synthesizerRuns |-> 0, bodyRequested |-> FALSE]

RegisterUpdateDecl(parameterType) ==
    LET updateDecl == FuncDecl_update(Len(synthesizedDecls) + 1, parameterType, members)
    IN  /\ contextMembers' = addMembersToConformanceContext(contextMembers, updateDecl)
        /\ synthesizedDecls' = addSynthesizedDecl(synthesizedDecls, updateDecl)
        /\ result' = DeclResult(updateDecl)
        /\ UNCHANGED halted

\* parameterDecl is dereferenced (line 170) before the assertion that it is
\* not null (line 172): with no Parameter alias the behaviour is undefined,
\* and the build either stops there or goes on with an undefined type.
deriveParameterGroup_update ==
    LET parameterDecl == getParameterTypeAliasDecl(members)
    IN  IF parameterDecl = NullDecl
        THEN \/ /\ halted' = TRUE
                /\ result' = NoResult
                /\ UNCHANGED <<contextMembers, synthesizedDecls>>
             \/ RegisterUpdateDecl(UndefType)
        ELSE RegisterUpdateDecl(parameterDecl.type)

(***************************************************************************)
(* The entry points.                                                       *)
(***************************************************************************)
\* The requirement is diagnosed without its location.
BrokenRequirement_NoLoc(req) ==
    /\ derivations + Len(diagnostics) < MaxCalls
    /\ diagnostics' = diagnose(diagnostics, "", broken_parameter_group_requirement)
    /\ result' = NullResult
    /\ UNCHANGED <<fixedLayoutAttrs, contextMembers, synthesizedDecls,
                   derivations, halted>>

BrokenRequirement(req) ==
    /\ derivations + Len(diagnostics) < MaxCalls
    /\ diagnostics' = diagnose(diagnostics, req.loc, broken_parameter_group_requirement)
    /\ result' = NullResult
    /\ UNCHANGED <<fixedLayoutAttrs, contextMembers, synthesizedDecls,
                   derivations, halted>>

\* DerivedConformance::deriveParameterGroup(ValueDecl *)
deriveParameterGroup_ValueDecl(req) ==
    /\ ~halted
    /\ requirement' = req
    /\ IF req.name = Id_update
       THEN /\ derivations + Len(diagnostics) < MaxCalls
            /\ derivations' = derivations + 1
            /\ fixedLayoutAttrs' = addFixedLayoutAttr(fixedLayoutAttrs)
            /\ deriveParameterGroup_update
            /\ UNCHANGED diagnostics
       ELSE BrokenRequirement(req)
    /\ UNCHANGED members

\* The associated-type entry point without the fixed-layout marking.
deriveParameterGroup_AssociatedTypeDecl_NoMark(req) ==
    /\ ~halted
    /\ requirement' = req
    /\ IF req.name = Id_Parameter
       THEN /\ derivations + Len(diagnostics) < MaxCalls
            /\ derivations' = derivations + 1
            /\ result' = TypeResult(deriveParameterGroup_Parameter(members))
            /\ UNCHANGED <<fixedLayoutAttrs, contextMembers, synthesizedDecls,
                           diagnostics, halted>>
       ELSE BrokenRequirement(req)
    /\ UNCHANGED members

\* DerivedConformance::deriveParameterGroup(AssociatedTypeDecl *)
deriveParameterGroup_AssociatedTypeDecl(req) ==
    /\ ~halted
    /\ requirement' = req
    /\ IF req.name = Id_Parameter
       THEN /\ derivations + Len(diagnostics) < MaxCalls
            /\ derivations' = derivations + 1
            /\ fixedLayoutAttrs' = addFixedLayoutAttr(fixedLayoutAttrs)
            /\ result' = TypeResult(deriveParameterGroup_Parameter(members))
            /\ UNCHANGED <<contextMembers, synthesizedDecls, diagnostics, halted>>
       ELSE BrokenRequirement(req)
    /\ UNCHANGED members

(***************************************************************************)
(* Body elaboration.  The body of a synthesized declaration is asked for   *)
(* by a later pass; a declaration that still carries its synthesizer has   *)
(* it run, and the synthesizer's setBody replaces the synthesizer by the   *)
(* body.                                                                   *)
(***************************************************************************)
getBody(i) ==
    /\ ~halted
    /\ i \in 1..Len(contextMembers)
    /\ contextMembers' =
         [contextMembers EXCEPT ![i] =
            IF @.bodyKind = "Synthesize"
            THEN [@ EXCEPT !.bodyKind = "Parsed",
                           !.body = deriveBodyParameterGroup_update(members),
                           !.synthesizerRuns = @ + 1,
                           !.bodyRequested = TRUE]
            ELSE [@ EXCEPT !.bodyRequested = TRUE]]
    /\ UNCHANGED <<members, fixedLayoutAttrs, synthesizedDecls, diagnostics,
                   requirement, result, derivations, halted>>

(***************************************************************************)
(* The nominal types the derivation is run on: up to MaxFields stored      *)
(* properties with distinct names, declared in ascending or descending     *)
(* name order, followed by the type aliases the nominal declares.          *)
(***************************************************************************)
FieldName(n, i, descending) == IF descending THEN AllNames[n + 1 - i] ELSE AllNames[i]

StoredPropertyLists ==
    UNION { { [i \in 1..n |-> VarDecl(FieldName(n, i, descending), types[i])] :
                types \in [1..n -> Types], descending \in BOOLEAN } :
            n \in 0..MaxFields }

TypeAliasLists ==
    { << >>,
      <<TypeAliasDecl(Id_Parameter, "Float")>>,
      <<TypeAliasDecl("Other", "Int")>>,
      <<TypeAliasDecl("Other", "Int"), TypeAliasDecl(Id_Parameter, "Float")>> }

Init ==
    /\ members \in { props \o aliases : props \in StoredPropertyLists,
                                         aliases \in TypeAliasLists }
    /\ fixedLayoutAttrs \in {0, 1}
    /\ contextMembers = << >>
    /\ synthesizedDecls = << >>
    /\ diagnostics = << >>
    /\ requirement = NoRequirement
    /\ result = NoResult
    /\ derivations = 0
    /\ halted = FALSE

Next ==
    \/ \E req \in Requirements("value") : deriveParameterGroup_ValueDecl(req)
    \/ \E req \in Requirements("type") : deriveParameterGroup_AssociatedTypeDecl(req)
    \/ \E i \in 1..MaxCalls : getBody(i)

Spec == Init /\ [][Next]_vars

\* Derivation in the type checker's pass order: the Parameter type alias is
\* a member of the nominal before the update method is requested.
InitAliasDeclared == Init /\ getParameterTypeAliasDecl(members) # NullDecl

SpecAliasDeclared == InitAliasDeclared /\ [][Next]_vars

\* Element-type inference alone: the associated-type entry point applied to
\* every nominal of Init.
NextInference ==
    \E req \in Requirements("type") : deriveParameterGroup_AssociatedTypeDecl(req)

SpecInference == Init /\ [][NextInference]_vars

(***************************************************************************)
(* Vocabulary of the properties.                                           *)
(***************************************************************************)
storedProperties == getStoredProperties(members)

IsValueUpdate == requirement.entry = "value" /\ requirement.name = Id_update

IsTypeParameter == requirement.entry = "type" /\ requirement.name = Id_Parameter

\* The parameter type a field resolves to, as the FieldTypeResolver is
\* specified: the associated element type of a type that satisfies the
\* protocol, the declared type of one that does not.
ResolvedType(field) ==
    IF conformsToProtocol(field.type).found
    THEN conformsToProtocol(field.type).Parameter
    ELSE field.type

\* The sequence s without its i-th element.
Without(s, i) == [j \in 1..(Len(s) - 1) |-> IF j < i THEN s[j] ELSE s[j + 1]]

RECURSIVE Permutations(_)
Permutations(s) ==
    IF Len(s) = 0
    THEN { << >> }
    ELSE UNION { { <<s[i]>> \o rest : rest \in Permutations(Without(s, i)) } :
                 i \in 1..Len(s) }

ElaboratedDecls == { i \in 1..Len(contextMembers) : contextMembers[i].bodyKind = "Parsed" }

\* Whether a field's declared type satisfies the protocol: the check of the
\* FieldTypeResolver, which the body synthesizer is specified to repeat.
SatisfiesProtocol(field) == conformsToProtocol(field.type).found

\* The statement the body is specified to hold for a field.
ExpectedStatement(field) ==
    IF SatisfiesProtocol(field)
    THEN [kind |-> "recursive", callee |-> conformsToProtocol(field.type).update,
          base |-> "self." \o field.name,
          args |-> <<"gradients." \o field.name, "updater">>]
    ELSE [kind |-> "direct", callee |-> "updater", base |-> "",
          args |-> <<"&self." \o field.name, "gradients." \o field.name>>]

(***************************************************************************)
(* C1: for a nominal with no stored properties canDerive is false and both *)
(* entry points, asked for a requirement they recognize, return nothing.   *)
(***************************************************************************)
C1_ZeroFieldsDeriveNothing ==
    Len(storedProperties) = 0 =>
        /\ ~canDeriveParameterGroup(members)
        /\ IsTypeParameter => result = NullResult
        /\ IsValueUpdate => result = NullResult

(***************************************************************************)
(* C2: when there is at least one stored property and all of them resolve  *)
(* to the same parameter type T, canDerive is true, the inferred type is   *)
(* T, and the associated-type entry point returns T.                       *)
(***************************************************************************)
C2_CommonTypeIsInferred ==
    \A T \in Types :
        ( /\ Len(storedProperties) >= 1
          /\ \A i \in 1..Len(storedProperties) : ResolvedType(storedProperties[i]) = T )
        => /\ canDeriveParameterGroup(members)
           /\ deriveParameterGroup_Parameter(members) = T
           /\ IsTypeParameter => result = TypeResult(T)

C2_Witness ==
    /\ IsTypeParameter
    /\ Len(storedProperties) >= 2
    /\ \E i, j \in 1..Len(storedProperties) :
          /\ storedProperties[i].type = "Dense"
          /\ storedProperties[j].type = "Float"
    /\ result = TypeResult("Float")

(***************************************************************************)
(* C3: when two stored properties resolve to different parameter types,    *)
(* no element type is inferred and canDerive is false, and the same holds  *)
(* for every permutation of the declaration order.                         *)
(***************************************************************************)
C3_MismatchFailsInAnyOrder ==
    ( /\ Len(storedProperties) >= 2
      /\ \E i, j \in 1..Len(storedProperties) :
            ResolvedType(storedProperties[i]) # ResolvedType(storedProperties[j]) )
    => /\ deriveParameterGroup_Parameter(members) = NullType
       /\ ~canDeriveParameterGroup(members)
       /\ IsTypeParameter => result = NullResult
       /\ \A perm \in Permutations(storedProperties) :
             /\ deriveParameterGroup_Parameter(perm) = NullType
             /\ ~canDeriveParameterGroup(perm)

C3_Witness ==
    /\ IsTypeParameter
    /\ Len(storedProperties) = 3
    /\ ResolvedType(storedProperties[1]) = ResolvedType(storedProperties[2])
    /\ ResolvedType(storedProperties[3]) # ResolvedType(storedProperties[1])
    /\ result = NullResult

(***************************************************************************)
(* C4: an elaborated body holds exactly one statement per stored property, *)
(* in declaration order; the statement for a property is a recursive       *)
(* update call forwarding the updater when the property's declared type    *)
(* satisfies the protocol, and a direct application of the updater when it *)
(* does not; two elaborations for the same nominal give the same           *)
(* statements.                                                             *)
(***************************************************************************)
C4_BodyStatementPerField ==
    /\ \A d \in ElaboratedDecls :
          /\ Len(contextMembers[d].body) = Len(storedProperties)
          /\ \A i \in 1..Len(storedProperties) :
                /\ contextMembers[d].body[i] = ExpectedStatement(storedProperties[i])
                /\ contextMembers[d].body[i].kind =
                     IF SatisfiesProtocol(storedProperties[i])
                     THEN "recursive" ELSE "direct"
    /\ \A d1, d2 \in ElaboratedDecls : contextMembers[d1].body = contextMembers[d2].body

(***************************************************************************)
(* C5: after two or more invocations of the entry points with recognized   *)
(* requirement names the nominal carries exactly one fixed-layout marker,  *)
(* and a marker once present is never removed or duplicated.               *)
(***************************************************************************)
C5_OneFixedLayoutMarker ==
    /\ [](derivations >= 2 => fixedLayoutAttrs = 1)
    /\ [][fixedLayoutAttrs >= 1 => fixedLayoutAttrs' = fixedLayoutAttrs]_vars

C5_Witness ==
    /\ derivations >= 2
    /\ fixedLayoutAttrs = 1
    /\ IsTypeParameter
    /\ Len(contextMembers) >= 1

(***************************************************************************)
(* C6: however often the update method is requested, the conformance       *)
(* context holds exactly one synthesized update method and the record of   *)
(* synthesized declarations holds it once.                                 *)
(***************************************************************************)
C6_OneUpdateMethod ==
    /\ Cardinality({ i \in 1..Len(contextMembers) : contextMembers[i].name = Id_update }) <= 1
    /\ Len(synthesizedDecls) <= 1

(***************************************************************************)
(* C7: an entry point asked for a requirement whose name it does not       *)
(* recognize reports the broken-protocol diagnostic at the requirement's   *)
(* location and returns nothing.                                           *)
(***************************************************************************)
C7_BrokenRequirementDiagnosed ==
    ( /\ requirement # NoRequirement
      /\ ~IsValueUpdate
      /\ ~IsTypeParameter )
    => /\ result = NullResult
       /\ Len(diagnostics) >= 1
       /\ diagnostics[Len(diagnostics)] =
            [loc |-> requirement.loc, id |-> broken_parameter_group_requirement]

C7_Witness ==
    /\ requirement = [entry |-> "value", name |-> Id_Parameter, loc |-> "loc2"]
    /\ result = NullResult
    /\ diagnostics =
         <<[loc |-> "loc2", id |-> broken_parameter_group_requirement]>>

(***************************************************************************)
(* C8: a synthesized update method has no body until its body is asked     *)
(* for; the body synthesizer runs once, at the first request, and never    *)
(* again.                                                                  *)
(***************************************************************************)
C8_BodyIsLazy ==
    \A i \in 1..Len(contextMembers) :
        LET d == contextMembers[i]
        IN  /\ ~d.bodyRequested =>
                  /\ d.bodyKind = "Synthesize"
                  /\ d.body = << >>
                  /\ d.synthesizerRuns = 0
            /\ d.bodyRequested =>
                  /\ d.bodyKind = "Parsed"
                  /\ d.synthesizerRuns = 1

C8_Witness ==
    /\ Len(contextMembers) >= 2
    /\ Len(storedProperties) >= 1
    /\ contextMembers[1].bodyRequested
    /\ Len(contextMembers[1].body) = Len(storedProperties)
    /\ IsValueUpdate
    /\ result.kind = "decl"
    /\ ~contextMembers[result.id].bodyRequested
    /\ contextMembers[result.id].bodyKind = "Synthesize"

(***************************************************************************)
(* C9: when the update method is requested and the nominal has no          *)
(* Parameter type alias, synthesis halts: no declaration is returned,      *)
(* created or registered.                                                  *)
(***************************************************************************)
C9_MissingAliasHalts ==
    getParameterTypeAliasDecl(members) = NullDecl =>
        /\ contextMembers = << >>
        /\ synthesizedDecls = << >>
        /\ IsValueUpdate => (halted /\ result.kind # "decl")

(***************************************************************************)
(* C10: in an elaborated body a stored property gets a recursive update    *)
(* call exactly when its parameter type was taken from its associated      *)
(* element type, and a direct application exactly when its parameter type  *)
(* is its declared type.                                                   *)
(***************************************************************************)
C10_SameConformanceCheck ==
    \A d \in ElaboratedDecls :
        \A i \in 1..Len(storedProperties) :
            /\ contextMembers[d].body[i].kind = "recursive"
                 <=> conformsToProtocol(storedProperties[i].type).found
            /\ contextMembers[d].body[i].kind = "direct"
                 <=> ~conformsToProtocol(storedProperties[i].type).found

====
